---------------------------- MODULE Spec2Model ----------------------------
(***************************************************************************)
(* Model of src/main.py: the /analyze handler of the Instagram unfollower  *)
(* backend.  An uploaded archive is modelled by what zipfile reads from    *)
(* it: whether it is a zip container at all, and its directory, a sequence *)
(* of entries (filename, declared file_size, data).  The data of an entry  *)
(* is what json.load makes of it: a syntax error, or a JSON value (a list  *)
(* is a sequence, an object is a record, an absent key is a field that is  *)
(* not in the record's DOMAIN).  Python exceptions are result records.     *)
(* The response details of the source are Korean; the strings here are     *)
(* ASCII renderings of them, one per raise statement.                      *)
(***************************************************************************)
EXTENDS Integers, Sequences, FiniteSets, TLC

\* ------------------------------------------------------------------ bounds

\* Number of account names of UserPool the follower / following sets draw on.
NumUsers == 3

\* ------------------------------------------------------- program constants

MAX_SIZE == 50 * 1024 * 1024

MAX_FILES == 100

DANGEROUS_EXTENSIONS == <<".exe", ".bat", ".py", ".sh">>

RecentlyUnfollowedPath ==
  "connections/followers_and_following/recently_unfollowed_profiles.json"

BlockedPath == "connections/followers_and_following/blocked_profiles.json"

PendingPath ==
  "connections/followers_and_following/pending_follow_requests.json"

\* detail strings of the HTTPException raises (status_code 400)
DetailNewSize == "new_zip: uncompressed size limit exceeded"
DetailNewCount == "new_zip: file count limit exceeded"
DetailNewDanger == "new_zip: contains a dangerous file"
DetailOldSize == "old_zip: uncompressed size limit exceeded"
DetailOldCount == "old_zip: file count limit exceeded"
DetailOldDanger == "old_zip: contains a dangerous file"
DetailMissing == "followers_1.json or following.json is missing"

\* ------------------------------------------------------------ str methods

Char(s, i) == SubSeq(s, i, i)

UpperCase == "ABCDEFGHIJKLMNOPQRSTUVWXYZ"
LowerCase == "abcdefghijklmnopqrstuvwxyz"

\* The characters of the model's names, in code point order.
CodeOrder ==
  "-./0123456789ABCDEFGHIJKLMNOPQRSTUVWXYZ_abcdefghijklmnopqrstuvwxyz"

\* the lower-case letter of each upper-case letter
LowerOf ==
  [c \in { Char(UpperCase, i) : i \in 1..Len(UpperCase) } |->
     Char(LowerCase, CHOOSE i \in 1..Len(UpperCase) : Char(UpperCase, i) = c)]

\* s.lower(): every upper-case letter replaced, the rest copied
RECURSIVE lower(_)
lower(s) ==
  IF \A i \in 1..Len(s) : Char(s, i) \notin DOMAIN LowerOf THEN s
  ELSE LET i == CHOOSE i \in 1..Len(s) :
                  /\ Char(s, i) \in DOMAIN LowerOf
                  /\ \A j \in 1..(i - 1) : Char(s, j) \notin DOMAIN LowerOf
       IN  SubSeq(s, 1, i - 1) \o LowerOf[Char(s, i)]
             \o lower(SubSeq(s, i + 1, Len(s)))

endswith(s, suffix) ==
  /\ Len(s) >= Len(suffix)
  /\ SubSeq(s, Len(s) - Len(suffix) + 1, Len(s)) = suffix

\* sub in s
StrIn(sub, s) ==
  \E i \in 1..(Len(s) - Len(sub) + 1) : SubSeq(s, i, i + Len(sub) - 1) = sub

OrdOf ==
  [c \in { Char(CodeOrder, i) : i \in 1..Len(CodeOrder) } |->
     CHOOSE i \in 1..Len(CodeOrder) : Char(CodeOrder, i) = c]

Ord(c) == OrdOf[c]

\* a < b on str: the first differing code point decides, a proper prefix is less
RECURSIVE StrLess(_, _)
StrLess(a, b) ==
  IF Len(b) = 0 THEN FALSE
  ELSE IF Len(a) = 0 THEN TRUE
  ELSE IF Char(a, 1) = Char(b, 1)
       THEN StrLess(SubSeq(a, 2, Len(a)), SubSeq(b, 2, Len(b)))
       ELSE Ord(Char(a, 1)) < Ord(Char(b, 1))

\* ------------------------------------------------- results and exceptions

Return(v) == [exc |-> "", value |-> v, opened |-> <<>>]

Raise(e) == [exc |-> e, value |-> <<>>, opened |-> <<>>]

HTTPException(status_code, detail) ==
  [exc |-> "HTTPException",
   value |-> [status_code |-> status_code, detail |-> detail],
   opened |-> <<>>]

\* the same result, with the entries the call has opened so far
Opened(names, r) == [r EXCEPT !.opened = names \o r.opened]

\* dict.get(key, default)
Get(d, key, default) == IF key \in DOMAIN d THEN d[key] ELSE default

\* ---------------------------------------------------------------- zipfile

\* z.namelist()
namelist(z) == [i \in 1..Len(z.infolist) |-> z.infolist[i].filename]

\* zip_file.open(name) finds the entry in NameToInfo, where a later entry of
\* the same name has replaced an earlier one; KeyError when there is none.
HasEntry(z, name) == \E i \in 1..Len(z.infolist) : z.infolist[i].filename = name

GetInfo(z, name) ==
  z.infolist[CHOOSE i \in 1..Len(z.infolist) :
               /\ z.infolist[i].filename = name
               /\ \A j \in (i + 1)..Len(z.infolist) :
                     z.infolist[j].filename # name]

\* next((n for n in namelist if sub in n), None); "" stands for None, which
\* the caller only tests with `not`.
FirstWith(names, sub) ==
  IF \E i \in 1..Len(names) : StrIn(sub, names[i])
  THEN names[CHOOSE i \in 1..Len(names) :
               /\ StrIn(sub, names[i])
               /\ \A j \in 1..(i - 1) : ~StrIn(sub, names[j])]
  ELSE ""

RECURSIVE SumSizes(_)
SumSizes(infos) ==
  IF Len(infos) = 0 THEN 0
  ELSE infos[1].file_size + SumSizes(Tail(infos))

\* ----------------------------------------------------------- guard checks

\* mutant: the ceiling itself is refused (< for <=)
is_zip_safe_strict(zip_bytes) ==
  IF ~zip_bytes.is_zip THEN Raise("BadZipFile")
  ELSE Return(SumSizes(zip_bytes.infolist) < MAX_SIZE)

is_zip_safe(zip_bytes) ==
  IF ~zip_bytes.is_zip THEN Raise("BadZipFile")
  ELSE Return(SumSizes(zip_bytes.infolist) <= MAX_SIZE)

has_too_many_files(zip_bytes) ==
  IF ~zip_bytes.is_zip THEN Raise("BadZipFile")
  ELSE Return(Len(zip_bytes.infolist) > MAX_FILES)

\* name.lower().endswith(tuple(DANGEROUS_EXTENSIONS))
IsDangerousName(name) ==
  LET lowered == lower(name)
  IN  \E k \in 1..Len(DANGEROUS_EXTENSIONS) :
         endswith(lowered, DANGEROUS_EXTENSIONS[k])

\* mutant: the names are compared as they are (no lower())
has_dangerous_files_cased(zip_bytes) ==
  IF ~zip_bytes.is_zip THEN Raise("BadZipFile")
  ELSE LET names == namelist(zip_bytes)
       IN  Return(\E i \in 1..Len(names) :
                    \E k \in 1..Len(DANGEROUS_EXTENSIONS) :
                       endswith(names[i], DANGEROUS_EXTENSIONS[k]))

has_dangerous_files(zip_bytes) ==
  IF ~zip_bytes.is_zip THEN Raise("BadZipFile")
  ELSE LET names == namelist(zip_bytes)
       IN  Return(\E i \in 1..Len(names) : IsDangerousName(names[i]))


\* ------------------------------------------------------- record extractors

\* json.load(f) of an opened entry
json_load(info) ==
  IF info.data.malformed THEN Raise("JSONDecodeError")
  ELSE Return(info.data.json)

\* { entry["value"] for item in items
\*                  for entry in item.get("string_list_data", []) }
ValueSet(items) ==
  LET sld(i) == Get(items[i], "string_list_data", <<>>)
  IN  IF \E i \in 1..Len(items) : \E j \in 1..Len(sld(i)) :
            "value" \notin DOMAIN sld(i)[j]
      THEN Raise("KeyError")
      ELSE Return(UNION { { sld(i)[j].value : j \in 1..Len(sld(i)) } :
                          i \in 1..Len(items) })

\* mutant: the detail names the absent document
MissingErrorNaming(followers_path, following_path) ==
  IF followers_path = ""
  THEN HTTPException(400, "followers_1.json is missing")
  ELSE HTTPException(400, "following.json is missing")

\* raise HTTPException(status_code=400, detail=...): one detail for both paths
MissingError(followers_path, following_path) ==
  HTTPException(400, DetailMissing)

extract_usernames_from_zip(zip_bytes) ==
  IF ~zip_bytes.is_zip THEN Raise("BadZipFile")
  ELSE
    LET followers_path == FirstWith(namelist(zip_bytes), "followers_1.json")
        following_path == FirstWith(namelist(zip_bytes), "following.json")
    IN
    IF followers_path = "" \/ following_path = ""
    THEN MissingError(followers_path, following_path)
    ELSE
      LET followers_data == json_load(GetInfo(zip_bytes, followers_path))
          followers ==
            IF followers_data.exc # "" THEN followers_data
            ELSE ValueSet(followers_data.value)
          following_data == json_load(GetInfo(zip_bytes, following_path))
          following ==
            IF following_data.exc # "" THEN following_data
            ELSE ValueSet(Get(following_data.value,
                              "relationships_following", <<>>))
      IN
      IF followers.exc # ""
      THEN Opened(<<followers_path>>, followers)
      ELSE IF following.exc # ""
      THEN Opened(<<followers_path, following_path>>, following)
      ELSE Opened(<<followers_path, following_path>>,
                  Return([followers |-> followers.value,
                          following |-> following.value]))

\* [ entry["string_list_data"][0]["value"] for entry in records
\*   if entry.get("string_list_data") ]
RECURSIVE FirstValues(_)
FirstValues(records) ==
  IF Len(records) = 0 THEN Return(<<>>)
  ELSE
    LET entry == Head(records)
        sld == Get(entry, "string_list_data", <<>>)
    IN
    IF Len(sld) = 0 THEN FirstValues(Tail(records))
    ELSE IF "value" \notin DOMAIN sld[1] THEN Raise("KeyError")
    ELSE LET rest == FirstValues(Tail(records))
         IN  IF rest.exc # "" THEN rest
             ELSE Return(<<sld[1].value>> \o rest.value)

\* mutant: a record without a title is skipped
RECURSIVE TitlesSkipping(_)
TitlesSkipping(records) ==
  IF Len(records) = 0 THEN Return(<<>>)
  ELSE IF "title" \notin DOMAIN Head(records)
  THEN TitlesSkipping(Tail(records))
  ELSE Return(<<Head(records).title>> \o TitlesSkipping(Tail(records)).value)

\* [ entry["title"] for entry in records ]
RECURSIVE Titles(_)
Titles(records) ==
  IF Len(records) = 0 THEN Return(<<>>)
  ELSE IF "title" \notin DOMAIN Head(records) THEN Raise("KeyError")
  ELSE LET rest == Titles(Tail(records))
       IN  IF rest.exc # "" THEN rest
           ELSE Return(<<Head(records).title>> \o rest.value)

\* mutant: no except clause
NoExcept(r) == r

\* try: ... except KeyError: return []
ExceptKeyError(r) == IF r.exc = "KeyError" THEN Return(<<>>) ELSE r

extract_recently_unfollowed(zip_bytes) ==
  IF ~zip_bytes.is_zip THEN Raise("BadZipFile")
  ELSE IF ~HasEntry(zip_bytes, RecentlyUnfollowedPath)
  THEN ExceptKeyError(Raise("KeyError"))
  ELSE
    LET data == json_load(GetInfo(zip_bytes, RecentlyUnfollowedPath))
    IN  Opened(<<RecentlyUnfollowedPath>>,
          IF data.exc # "" THEN ExceptKeyError(data)
          ELSE ExceptKeyError(FirstValues(
                 Get(data.value, "relationships_unfollowed_users", <<>>))))

extract_blocked_users(zip_bytes) ==
  IF ~zip_bytes.is_zip THEN Raise("BadZipFile")
  ELSE IF ~HasEntry(zip_bytes, BlockedPath)
  THEN ExceptKeyError(Raise("KeyError"))
  ELSE
    LET data == json_load(GetInfo(zip_bytes, BlockedPath))
    IN  Opened(<<BlockedPath>>,
          IF data.exc # "" THEN ExceptKeyError(data)
          ELSE ExceptKeyError(Titles(
                 Get(data.value, "relationships_blocked_users", <<>>))))

extract_pending_requests(zip_bytes) ==
  IF ~zip_bytes.is_zip THEN Raise("BadZipFile")
  ELSE IF ~HasEntry(zip_bytes, PendingPath)
  THEN ExceptKeyError(Raise("KeyError"))
  ELSE
    LET data == json_load(GetInfo(zip_bytes, PendingPath))
    IN  Opened(<<PendingPath>>,
          IF data.exc # "" THEN ExceptKeyError(data)
          ELSE ExceptKeyError(FirstValues(
                 Get(data.value, "relationships_follow_requests_sent", <<>>))))

\* ------------------------------------------------------------------ sorted

\* list(s): the elements of a set in some order
RECURSIVE list(_)
list(s) ==
  IF s = {} THEN <<>>
  ELSE LET x == CHOOSE x \in s : TRUE IN <<x>> \o list(s \ {x})

\* x put into an ascending list, after the elements that are not greater
RECURSIVE Insert(_, _)
Insert(x, l) ==
  IF Len(l) = 0 THEN <<x>>
  ELSE IF StrLess(x, Head(l)) THEN <<x>> \o l
  ELSE <<Head(l)>> \o Insert(x, Tail(l))

RECURSIVE sorted(_)
sorted(l) ==
  IF Len(l) = 0 THEN <<>>
  ELSE Insert(l[Len(l)], sorted(SubSeq(l, 1, Len(l) - 1)))

\* --------------------------------------------------------------- requests

Entry(filename, file_size, data) ==
  [filename |-> filename, file_size |-> file_size, data |-> data]

Json(v) == [malformed |-> FALSE, json |-> v]

NotJson == [malformed |-> TRUE, json |-> <<>>]

Zip(infolist) == [is_zip |-> TRUE, infolist |-> infolist]

NotAZip == [is_zip |-> FALSE, infolist |-> <<>>]

Upload(bytes) == [file |-> TRUE, bytes |-> bytes]

NoUpload == [file |-> FALSE, bytes |-> NotAZip]

UserPool == <<"a", "A", "b", "ab", "B">>

Users ==
  { UserPool[i] : i \in 1..(IF NumUsers < Len(UserPool) THEN NumUsers
                            ELSE Len(UserPool)) }

StringList(values) ==
  [string_list_data |-> [i \in 1..Len(values) |-> [value |-> values[i]]]]

\* one record per account, as the export writes them
Records(accounts) ==
  LET l == list(accounts) IN [i \in 1..Len(l) |-> StringList(<<l[i]>>)]

FollowersName == "connections/followers_and_following/followers_1.json"

FollowingName == "connections/followers_and_following/following.json"

FollowersEntry(data) == Entry(FollowersName, 10, data)

FollowingEntry(data) == Entry(FollowingName, 10, data)

Snapshot(followers, following) ==
  Zip(<<FollowersEntry(Json(Records(followers))),
        FollowingEntry(Json([relationships_following |-> Records(following)]))>>)

BaseZip == Snapshot({"a", "b"}, {"a", "A"})

\* accounts of well-formed exports: every pair of new followers and new
\* following, without and with an old export, and every pair of new and old
\* followers
DiffInputs ==
  { [new |-> Snapshot(nf, ng), old |-> o] :
      nf \in SUBSET Users, ng \in SUBSET Users,
      o \in {NoUpload, Upload(Snapshot(Users, {}))} }
    \cup { [new |-> Snapshot(nf, Users), old |-> Upload(Snapshot(of, {}))] :
             nf \in SUBSET Users, of \in SUBSET Users }

\* shapes of the two required documents
ItemShapes ==
  { <<>>,
    <<[title |-> "x"]>>,
    <<[string_list_data |-> <<>>]>>,
    <<StringList(<<"a", "b">>)>>,
    <<StringList(<<"a">>), StringList(<<"a">>), StringList(<<"A">>)>>,
    <<StringList(<<"a">>), [string_list_data |-> <<[href |-> "h"]>>]>> }

FollowersShapes == {NotJson} \cup { Json(items) : items \in ItemShapes }

FollowingShapes ==
  {NotJson, Json([relationships_followers |-> <<StringList(<<"a">>)>>])}
    \cup { Json([relationships_following |-> items]) : items \in ItemShapes }

ShapeZip(followers, following) ==
  Zip(<<FollowersEntry(followers), FollowingEntry(following)>>)

ShapeInputs ==
  { [new |-> ShapeZip(f, g), old |-> NoUpload] :
      f \in FollowersShapes, g \in FollowingShapes }
    \cup { [new |-> BaseZip, old |-> Upload(ShapeZip(f, g))] :
             f \in FollowersShapes, g \in FollowingShapes }

\* archives around the limits of the guard: a third entry of a given name,
\* `count` entries in all, declared sizes that add up to `total`
ExtraNames ==
  {"notes.txt", "payload.EXE", "run.sh", "tool.Py", "x.bat", "exe",
   "run.sh.txt"}

GuardZip(name, count, total) ==
  Zip(BaseZip.infolist \o <<Entry(name, total - 20, NotJson)>>
        \o [i \in 1..(count - 3) |-> Entry("media/photo.jpg", 0, NotJson)])

SmallGuardZips ==
  { GuardZip(name, 3, total) :
      name \in ExtraNames, total \in {30, MAX_SIZE, MAX_SIZE + 1} }

GuardZips ==
  { GuardZip(name, count, total) :
      name \in ExtraNames, count \in {3, MAX_FILES, MAX_FILES + 1},
      total \in {30, MAX_SIZE, MAX_SIZE + 1} }

GuardInputs ==
  { [new |-> z, old |-> NoUpload] : z \in GuardZips }
    \cup { [new |-> BaseZip, old |-> Upload(z)] : z \in GuardZips }
    \cup { [new |-> z, old |-> Upload(y)] :
             z \in SmallGuardZips, y \in SmallGuardZips }

\* archives with and without the entries of the required documents
RequiredZips ==
  { BaseZip,
    Zip(<<>>),
    Zip(<<Entry("readme.txt", 5, NotJson)>>),
    Zip(<<FollowersEntry(Json(Records({"a"})))>>),
    Zip(<<FollowingEntry(Json([relationships_following |-> Records({"a"})]))>>),
    Zip(<<Entry("followers_1.json", 10, Json(Records({"b"}))),
          Entry("following.json", 10,
                Json([relationships_following |-> Records({"a"})]))>>),
    Zip(<<Entry("backup/followers_1.json.bak", 10, Json(Records({"b"}))),
          Entry("not_following.json", 10,
                Json([relationships_following |-> Records({"a"})]))>>),
    Zip(<<Entry("x/followers_1.json", 10, Json(Records({"a"}))),
          Entry("y/followers_1.json", 10, Json(Records({"b"}))),
          FollowingEntry(Json([relationships_following |-> Records({"a"})]))>>),
    Zip(<<FollowersEntry(Json(Records({"a"}))),
          FollowersEntry(Json(Records({"b"}))),
          FollowingEntry(Json([relationships_following |-> Records({"a"})]))>>) }

RequiredInputs ==
  { [new |-> z, old |-> o] :
      z \in RequiredZips \cup {NotAZip},
      o \in {NoUpload, Upload(NotAZip), Upload(GuardZip("run.sh", 3, 30)),
             Upload(GuardZip("notes.txt", 3, MAX_SIZE + 1))}
              \cup { Upload(y) : y \in RequiredZips } }

\* shapes of the three optional documents
FirstValueShapes(field) ==
  { <<>>,
    field :> <<>>,
    field :> <<StringList(<<"a">>), StringList(<<"b", "A">>)>>,
    field :> <<StringList(<<"b">>), [title |-> "x"],
               [string_list_data |-> <<>>], StringList(<<"a">>)>>,
    field :> <<StringList(<<"a">>), [string_list_data |-> <<[href |-> "h"]>>],
               StringList(<<"b">>)>>,
    field :> <<[string_list_data |-> <<[value |-> "a"], [href |-> "h"]>>]>> }

TitleShapes(field) ==
  { <<>>,
    field :> <<>>,
    field :> <<[title |-> "b"], [title |-> "a"]>>,
    field :> <<[title |-> "b"], [href |-> "h"], [title |-> "a"]>>,
    field :> <<[href |-> "h"]>> }

\* no entry of the path, one that is not JSON, or one of the shapes
OptionalEntries(path, shapes) ==
  {<<>>, <<Entry(path, 10, NotJson)>>}
    \cup { <<Entry(path, 10, Json(d))>> : d \in shapes }

OptionalInputs ==
  { [new |-> Zip(BaseZip.infolist \o r \o b \o p), old |-> o] :
      r \in OptionalEntries(RecentlyUnfollowedPath,
                            FirstValueShapes("relationships_unfollowed_users")),
      b \in OptionalEntries(BlockedPath,
                            TitleShapes("relationships_blocked_users")),
      p \in OptionalEntries(PendingPath,
                            FirstValueShapes("relationships_follow_requests_sent")),
      o \in {NoUpload,
             Upload(Zip(Snapshot({"a", "A"}, {}).infolist
                          \o <<Entry(RecentlyUnfollowedPath, 10, NotJson),
                               Entry(BlockedPath, 10, NotJson),
                               Entry(PendingPath, 10, NotJson)>>))} }

Inputs ==
  DiffInputs \cup ShapeInputs \cup GuardInputs \cup RequiredInputs
    \cup OptionalInputs

\* ---------------------------------------------------------------- handler

VARIABLES
  pc,                   \* the statement of analyze_zip_files to run next
  new_zip,              \* the bytes of the required upload
  old_zip,              \* the optional upload
  new_followers, new_following,
  recently_unfollowed, blocked_users, pending_requests,
  old_followers, unfollowers, not_following_back,
  response,             \* what the client gets
  events                \* the guard checks run and the entries opened, in order

locals ==
  <<new_followers, new_following, recently_unfollowed, blocked_users,
    pending_requests, old_followers, unfollowers, not_following_back>>

vars == <<pc, new_zip, old_zip, locals, response, events>>

\* mutant: both archives are validated before the new one is read
StatementsValidatingFirst ==
  <<"new_size", "new_count", "new_danger",
    "old_zip", "old_count", "old_danger",
    "new_usernames", "new_recent", "new_blocked", "new_pending",
    "old_usernames", "not_following_back">>

\* The statements of analyze_zip_files that call into the archives, in the
\* order the handler runs them; "old_zip" is the `if old_zip:` with the first
\* guard statement of its block.
Statements ==
  <<"new_size", "new_count", "new_danger",
    "new_usernames", "new_recent", "new_blocked", "new_pending",
    "old_zip", "old_count", "old_danger", "old_usernames",
    "not_following_back">>

Index(stmt) == CHOOSE i \in 1..Len(Statements) : Statements[i] = stmt

\* the statement that runs when stmt has completed
After(stmt) == Statements[Index(stmt) + 1]

NoResponse ==
  [status_code |-> 0, detail |-> "", exc |-> "", at |-> "", body |-> <<>>]

\* An HTTPException becomes its status and detail; any other exception
\* leaves the handler and the middleware answers 500, printing it.  `at` is
\* the statement that raised.
ErrorResponse(r, at) ==
  IF r.exc = "HTTPException"
  THEN [status_code |-> r.value.status_code, detail |-> r.value.detail,
        exc |-> "", at |-> at, body |-> <<>>]
  ELSE [status_code |-> 500, detail |-> "Internal server error",
        exc |-> r.exc, at |-> at, body |-> <<>>]

CheckEvent(role, what, passed) ==
  [kind |-> "check", role |-> role, what |-> what, passed |-> passed]

OpenEvents(role, names) ==
  [i \in 1..Len(names) |->
     [kind |-> "open", role |-> role, what |-> names[i], passed |-> TRUE]]

\* mutant: accounts are matched without regard to case
UnfollowersAnyCase(old, new) ==
  sorted(list({ x \in old : \A y \in new : lower(x) # lower(y) }))

Unfollowers(old, new) == sorted(list(old \ new))

NotFollowingBack(following, followers) == sorted(list(following \ followers))

Init ==
  /\ pc = "idle"
  /\ new_zip = NotAZip
  /\ old_zip = NoUpload
  /\ new_followers = {} /\ new_following = {}
  /\ recently_unfollowed = <<>> /\ blocked_users = <<>>
  /\ pending_requests = <<>>
  /\ old_followers = {} /\ unfollowers = <<>> /\ not_following_back = <<>>
  /\ response = NoResponse
  /\ events = <<>>

\* POST /analyze arrives; new_bytes = await new_zip.read()
Receive ==
  /\ pc = "idle"
  /\ \E input \in Inputs : new_zip' = input.new /\ old_zip' = input.old
  /\ pc' = Statements[1]
  /\ UNCHANGED <<locals, response, events>>

\* One guard statement: `if <failed>: raise HTTPException(400, detail)`,
\* where r is the result of the check's call.
GuardStep(at, role, what, r, failed, detail) ==
  /\ pc = at
  /\ IF r.exc # ""
     THEN /\ response' = ErrorResponse(r, at)
          /\ pc' = "done"
          /\ UNCHANGED events
     ELSE IF failed
     THEN /\ response' = ErrorResponse(HTTPException(400, detail), at)
          /\ pc' = "done"
          /\ events' = Append(events, CheckEvent(role, what, FALSE))
     ELSE /\ pc' = After(at)
          /\ events' = Append(events, CheckEvent(role, what, TRUE))
          /\ UNCHANGED response
  /\ UNCHANGED <<new_zip, old_zip, locals>>

CheckNewSize ==
  LET r == is_zip_safe(new_zip)
  IN  GuardStep("new_size", "new", "size", r, ~r.value, DetailNewSize)

CheckNewCount ==
  LET r == has_too_many_files(new_zip)
  IN  GuardStep("new_count", "new", "count", r, r.value, DetailNewCount)

CheckNewDanger ==
  LET r == has_dangerous_files(new_zip)
  IN  GuardStep("new_danger", "new", "extension", r, r.value, DetailNewDanger)

ExtractNewUsernames ==
  /\ pc = "new_usernames"
  /\ LET r == extract_usernames_from_zip(new_zip)
     IN  /\ events' = events \o OpenEvents("new", r.opened)
         /\ IF r.exc # ""
            THEN /\ response' = ErrorResponse(r, pc)
                 /\ pc' = "done"
                 /\ UNCHANGED <<new_followers, new_following>>
            ELSE /\ new_followers' = r.value.followers
                 /\ new_following' = r.value.following
                 /\ pc' = After("new_usernames")
                 /\ UNCHANGED response
  /\ UNCHANGED <<new_zip, old_zip, recently_unfollowed, blocked_users,
                 pending_requests, old_followers, unfollowers,
                 not_following_back>>

ExtractRecentlyUnfollowed ==
  /\ pc = "new_recent"
  /\ LET r == extract_recently_unfollowed(new_zip)
     IN  /\ events' = events \o OpenEvents("new", r.opened)
         /\ IF r.exc # ""
            THEN /\ response' = ErrorResponse(r, pc)
                 /\ pc' = "done"
                 /\ UNCHANGED recently_unfollowed
            ELSE /\ recently_unfollowed' = r.value
                 /\ pc' = After("new_recent")
                 /\ UNCHANGED response
  /\ UNCHANGED <<new_zip, old_zip, new_followers, new_following,
                 blocked_users, pending_requests, old_followers, unfollowers,
                 not_following_back>>

ExtractBlockedUsers ==
  /\ pc = "new_blocked"
  /\ LET r == extract_blocked_users(new_zip)
     IN  /\ events' = events \o OpenEvents("new", r.opened)
         /\ IF r.exc # ""
            THEN /\ response' = ErrorResponse(r, pc)
                 /\ pc' = "done"
                 /\ UNCHANGED blocked_users
            ELSE /\ blocked_users' = r.value
                 /\ pc' = After("new_blocked")
                 /\ UNCHANGED response
  /\ UNCHANGED <<new_zip, old_zip, new_followers, new_following,
                 recently_unfollowed, pending_requests, old_followers,
                 unfollowers, not_following_back>>

ExtractPendingRequests ==
  /\ pc = "new_pending"
  /\ LET r == extract_pending_requests(new_zip)
     IN  /\ events' = events \o OpenEvents("new", r.opened)
         /\ IF r.exc # ""
            THEN /\ response' = ErrorResponse(r, pc)
                 /\ pc' = "done"
                 /\ UNCHANGED pending_requests
            ELSE /\ pending_requests' = r.value
                 /\ pc' = After("new_pending")
                 /\ UNCHANGED response
  /\ UNCHANGED <<new_zip, old_zip, new_followers, new_following,
                 recently_unfollowed, blocked_users, old_followers,
                 unfollowers, not_following_back>>

\* if old_zip: old_bytes = await old_zip.read(); the first guard statement
CheckOldSize ==
  /\ old_zip.file
  /\ LET r == is_zip_safe(old_zip.bytes)
     IN  GuardStep("old_zip", "old", "size", r, ~r.value, DetailOldSize)

CheckOldCount ==
  LET r == has_too_many_files(old_zip.bytes)
  IN  GuardStep("old_count", "old", "count", r, r.value, DetailOldCount)

CheckOldDanger ==
  LET r == has_dangerous_files(old_zip.bytes)
  IN  GuardStep("old_danger", "old", "extension", r, r.value, DetailOldDanger)

\* old_followers, _ = extract_usernames_from_zip(old_bytes)
\* unfollowers = sorted(list(old_followers - new_followers))
ExtractOldUsernames ==
  /\ pc = "old_usernames"
  /\ LET r == extract_usernames_from_zip(old_zip.bytes)
     IN  /\ events' = events \o OpenEvents("old", r.opened)
         /\ IF r.exc # ""
            THEN /\ response' = ErrorResponse(r, pc)
                 /\ pc' = "done"
                 /\ UNCHANGED <<old_followers, unfollowers>>
            ELSE /\ old_followers' = r.value.followers
                 /\ unfollowers' = Unfollowers(r.value.followers, new_followers)
                 /\ pc' = After("old_usernames")
                 /\ UNCHANGED response
  /\ UNCHANGED <<new_zip, old_zip, new_followers, new_following,
                 recently_unfollowed, blocked_users, pending_requests,
                 not_following_back>>

\* else: unfollowers = []
NoOldZip ==
  /\ pc = "old_zip"
  /\ ~old_zip.file
  /\ unfollowers' = <<>>
  /\ pc' = After("old_usernames")
  /\ UNCHANGED <<new_zip, old_zip, new_followers, new_following,
                 recently_unfollowed, blocked_users, pending_requests,
                 old_followers, not_following_back, response, events>>

\* not_following_back = sorted(...); return {...}
ReturnResult ==
  /\ pc = "not_following_back"
  /\ not_following_back' = NotFollowingBack(new_following, new_followers)
  /\ response' =
       [status_code |-> 200, detail |-> "", exc |-> "", at |-> "",
        body |-> [unfollowers |-> unfollowers,
                  not_following_back |-> not_following_back',
                  recently_unfollowed |-> recently_unfollowed,
                  blocked_users |-> blocked_users,
                  pending_requests |-> pending_requests]]
  /\ pc' = "done"
  /\ UNCHANGED <<new_zip, old_zip, new_followers, new_following,
                 recently_unfollowed, blocked_users, pending_requests,
                 old_followers, unfollowers, events>>

\* The response is sent; nothing of the request is kept.
SendResponse ==
  /\ pc = "done"
  /\ pc' = "idle"
  /\ new_zip' = NotAZip
  /\ old_zip' = NoUpload
  /\ new_followers' = {} /\ new_following' = {}
  /\ recently_unfollowed' = <<>> /\ blocked_users' = <<>>
  /\ pending_requests' = <<>>
  /\ old_followers' = {} /\ unfollowers' = <<>> /\ not_following_back' = <<>>
  /\ response' = NoResponse
  /\ events' = <<>>

Next ==
  \/ Receive
  \/ CheckNewSize
  \/ CheckNewCount
  \/ CheckNewDanger
  \/ ExtractNewUsernames
  \/ ExtractRecentlyUnfollowed
  \/ ExtractBlockedUsers
  \/ ExtractPendingRequests
  \/ CheckOldSize
  \/ CheckOldCount
  \/ CheckOldDanger
  \/ ExtractOldUsernames
  \/ NoOldZip
  \/ ReturnResult
  \/ SendResponse

Spec == Init /\ [][Next]_vars


\* ------------------------------------------------------------- properties

ArchiveOf(role) == IF role = "new" THEN new_zip ELSE old_zip.bytes

\* the statement the handler is at, or the one that raised
Position == IF pc = "done" /\ response.at # "" THEN response.at ELSE pc

\* stmt has run to its end without raising
Completed(stmt) ==
  /\ pc # "idle"
  /\ \/ pc = "done" /\ response.at = ""
     \/ Position \in { Statements[i] : i \in (Index(stmt) + 1)..Len(Statements) }

\* stmt has run, to its end or to a raise
HasRun(stmt) == Completed(stmt) \/ (pc = "done" /\ response.at = stmt)

PassedBefore(role, what, j) ==
  \E i \in 1..(j - 1) : events[i] = CheckEvent(role, what, TRUE)

GuardPassedBefore(role, j) ==
  /\ PassedBefore(role, "size", j)
  /\ PassedBefore(role, "count", j)
  /\ PassedBefore(role, "extension", j)

\* The guard verdict the spec gives for a readable archive.
DenyList == {".exe", ".bat", ".py", ".sh"}

ReferenceVerdict(z) ==
  IF SumSizes(z.infolist) > 52428800 THEN "OversizeArchive"
  ELSE IF Len(z.infolist) > 100 THEN "TooManyEntries"
  ELSE IF \E i \in 1..Len(z.infolist) : \E ext \in DenyList :
             endswith(lower(z.infolist[i].filename), ext)
       THEN "DangerousExtension"
  ELSE "pass"

\* The verdict of the handler's guard statements on the archive of a role.
Verdict(role) ==
  IF \E i \in 1..Len(events) : events[i] = CheckEvent(role, "size", FALSE)
  THEN "OversizeArchive"
  ELSE IF \E i \in 1..Len(events) : events[i] = CheckEvent(role, "count", FALSE)
  THEN "TooManyEntries"
  ELSE IF \E i \in 1..Len(events) :
             events[i] = CheckEvent(role, "extension", FALSE)
  THEN "DangerousExtension"
  ELSE IF GuardPassedBefore(role, Len(events) + 1) THEN "pass"
  ELSE "pending"

DetailOf(role, verdict) ==
  CASE verdict = "OversizeArchive" ->
         IF role = "new" THEN DetailNewSize ELSE DetailOldSize
    [] verdict = "TooManyEntries" ->
         IF role = "new" THEN DetailNewCount ELSE DetailOldCount
    [] verdict = "DangerousExtension" ->
         IF role = "new" THEN DetailNewDanger ELSE DetailOldDanger

GuardEnd(role) == IF role = "new" THEN "new_danger" ELSE "old_danger"

\* C3: an entry of an archive is opened only after the size, count and
\* extension checks have all run and passed for that archive, and only when
\* the archive is within the three limits; an archive with a failed check
\* has no entry opened.
C3_GuardBeforeOpen ==
  /\ \A j \in 1..Len(events) :
        events[j].kind = "open" => GuardPassedBefore(events[j].role, j)
  /\ \A role \in {"new", "old"} :
        (\E j \in 1..Len(events) :
            events[j].kind = "open" /\ events[j].role = role) =>
          /\ ArchiveOf(role).is_zip
          /\ ReferenceVerdict(ArchiveOf(role)) = "pass"
          /\ \A i \in 1..Len(events) :
                (events[i].kind = "check" /\ events[i].role = role) =>
                  events[i].passed

\* entries of both archives have been opened
C3_Witness ==
  /\ \E j \in 1..Len(events) : events[j].kind = "open" /\ events[j].role = "new"
  /\ \E j \in 1..Len(events) : events[j].kind = "open" /\ events[j].role = "old"

\* C7: for a readable archive of either role the guard's verdict is the
\* reference verdict (size over 50 MiB, else count over 100, else a
\* denylisted extension in any case, else pass), a failing verdict is the
\* 400 response naming the check and the role, and the verdict is there once
\* the guard statements have run.
C7_GuardVerdict ==
  \A role \in {"new", "old"} :
     LET z == ArchiveOf(role) IN
     (z.is_zip /\ (role = "old" => old_zip.file)) =>
       /\ Verdict(role) # "pending" => Verdict(role) = ReferenceVerdict(z)
       /\ Verdict(role) \notin {"pending", "pass"} =>
            /\ pc = "done"
            /\ response.status_code = 400
            /\ response.detail = DetailOf(role, Verdict(role))
       /\ (HasRun(GuardEnd(role)) /\ (role = "old" => HasRun("old_zip"))) =>
            Verdict(role) # "pending"

\* an archive exactly on the two ceilings passes and is analysed
C7_Witness ==
  /\ pc = "done" /\ response.status_code = 200
  /\ SumSizes(new_zip.infolist) = 52428800 /\ Len(new_zip.infolist) = 100
  /\ Verdict("new") = "pass"


Range(seq) == { seq[i] : i \in 1..Len(seq) }

StrictlyAscending(seq) ==
  \A i \in 1..Len(seq) : \A j \in (i + 1)..Len(seq) : StrLess(seq[i], seq[j])

\* C8: on success unfollowers is the strictly ascending sequence of exactly
\* the accounts of old followers that are not (as the same string) in new
\* followers, empty without an old archive, and not_following_back that of
\* new following minus new followers; an account of new followers is in
\* neither list.
C8_SortedDifferences ==
  (pc = "done" /\ response.status_code = 200) =>
    /\ StrictlyAscending(response.body.unfollowers)
    /\ StrictlyAscending(response.body.not_following_back)
    /\ Range(response.body.unfollowers) =
         (IF old_zip.file THEN old_followers \ new_followers ELSE {})
    /\ Range(response.body.not_following_back) =
         new_following \ new_followers
    /\ \A x \in new_followers :
          /\ x \notin Range(response.body.unfollowers)
          /\ x \notin Range(response.body.not_following_back)

\* "A" has unfollowed although "a" follows, and both lists have two accounts
C8_Witness ==
  /\ pc = "done" /\ response.status_code = 200 /\ old_zip.file
  /\ response.body.unfollowers = <<"A", "b">>
  /\ "a" \in new_followers
  /\ Len(response.body.not_following_back) = 2

\* The three optional documents: the statement that extracts each, its
\* path, the field of its records, and the field of the result it fills.
OptionalDocuments ==
  { [stmt |-> "new_recent", path |-> RecentlyUnfollowedPath,
     field |-> "relationships_unfollowed_users",
     out |-> "recently_unfollowed"],
    [stmt |-> "new_blocked", path |-> BlockedPath,
     field |-> "relationships_blocked_users", out |-> "blocked_users"],
    [stmt |-> "new_pending", path |-> PendingPath,
     field |-> "relationships_follow_requests_sent",
     out |-> "pending_requests"] }

LocalOf(o) ==
  CASE o.stmt = "new_recent" -> recently_unfollowed
    [] o.stmt = "new_blocked" -> blocked_users
    [] o.stmt = "new_pending" -> pending_requests

Absent(o) == new_zip.is_zip /\ ~HasEntry(new_zip, o.path)

Malformed(o) ==
  /\ new_zip.is_zip /\ HasEntry(new_zip, o.path)
  /\ GetInfo(new_zip, o.path).data.malformed

WellFormed(o) ==
  /\ new_zip.is_zip /\ HasEntry(new_zip, o.path)
  /\ ~GetInfo(new_zip, o.path).data.malformed

\* the records of a well-formed document that its extractor projects
Qualifying(o, rec) ==
  \/ o.stmt = "new_blocked"
  \/ /\ "string_list_data" \in DOMAIN rec
     /\ Len(rec.string_list_data) > 0

HasProjectedKey(o, rec) ==
  IF o.stmt = "new_blocked" THEN "title" \in DOMAIN rec
  ELSE "value" \in DOMAIN rec.string_list_data[1]

Projected(o, rec) ==
  IF o.stmt = "new_blocked" THEN rec.title
  ELSE rec.string_list_data[1].value

QualifyingRecords(o) ==
  LET doc == GetInfo(new_zip, o.path).data.json
      records == IF o.field \in DOMAIN doc THEN doc[o.field] ELSE <<>>
  IN  SelectSeq(records, LAMBDA rec : Qualifying(o, rec))

FullProjection(o) ==
  LET q == QualifyingRecords(o) IN [i \in 1..Len(q) |-> Projected(o, q[i])]

AllHaveKey(o) ==
  LET q == QualifyingRecords(o)
  IN  \A i \in 1..Len(q) : HasProjectedKey(o, q[i])

\* C10: over a well-formed optional document the extractor never raises,
\* and its result is the projection of every qualifying record in document
\* order when each has the projected key, and the empty sequence as soon as
\* one lacks it (never a partial list).
C10_AllOrNothing ==
  \A o \in OptionalDocuments :
     WellFormed(o) =>
       /\ pc = "done" => response.at # o.stmt
       /\ Completed(o.stmt) =>
            LocalOf(o) = IF AllHaveKey(o) THEN FullProjection(o) ELSE <<>>
       /\ (pc = "done" /\ response.status_code = 200) =>
            response.body[o.out] = LocalOf(o)

\* blocked records with titles around one without: the answer is 200 and
\* blocked_users is empty, while another document is projected in full
C10_Witness ==
  /\ pc = "done" /\ response.status_code = 200
  /\ \E o \in OptionalDocuments :
        /\ WellFormed(o) /\ o.stmt = "new_blocked" /\ ~AllHaveKey(o)
        /\ Len(QualifyingRecords(o)) = 3
        /\ response.body.blocked_users = <<>>
  /\ Len(response.body.recently_unfollowed) = 2

\* the result fields for the new archive z and the optional upload old
ExpectedBody(z, old) ==
  LET new == extract_usernames_from_zip(z).value
  IN  [unfollowers |->
         IF old.file
         THEN sorted(list(extract_usernames_from_zip(old.bytes).value.followers
                            \ new.followers))
         ELSE <<>>,
       not_following_back |-> sorted(list(new.following \ new.followers)),
       recently_unfollowed |-> extract_recently_unfollowed(z).value,
       blocked_users |-> extract_blocked_users(z).value,
       pending_requests |-> extract_pending_requests(z).value]

ShapesOf(o) ==
  IF o.stmt = "new_blocked" THEN TitleShapes(o.field)
  ELSE FirstValueShapes(o.field)

\* C9: when the path of an optional document is absent from the new archive,
\* its extractor opens nothing, raises nothing and yields the empty
\* sequence; on success the field is empty and the other four fields are
\* those of the same request with the document present.
C9_AbsentOptional ==
  \A o \in OptionalDocuments :
     Absent(o) =>
       /\ pc = "done" => response.at # o.stmt
       /\ \A j \in 1..Len(events) :
             ~(events[j].kind = "open" /\ events[j].role = "new"
                 /\ events[j].what = o.path)
       /\ Completed(o.stmt) => LocalOf(o) = <<>>
       /\ (pc = "done" /\ response.status_code = 200) =>
            /\ response.body[o.out] = <<>>
            /\ \A d \in ShapesOf(o) :
                  LET z == Zip(new_zip.infolist \o <<Entry(o.path, 0, Json(d))>>)
                      expected == ExpectedBody(z, old_zip)
                      others == DOMAIN response.body \ {o.out}
                  IN  [f \in others |-> response.body[f]] =
                        [f \in others |-> expected[f]]

\* success without blocked_profiles.json, the other two documents present
C9_Witness ==
  /\ pc = "done" /\ response.status_code = 200
  /\ \E o \in OptionalDocuments : o.stmt = "new_blocked" /\ Absent(o)
  /\ response.body.blocked_users = <<>>
  /\ Len(response.body.recently_unfollowed) = 2
  /\ Len(response.body.pending_requests) = 2

\* C4, as the spec states it: an optional document that is not JSON does
\* not fail the analysis, and its field is the empty sequence.
C4_MalformedOptionalTolerated ==
  \A o \in OptionalDocuments :
     Malformed(o) =>
       /\ pc = "done" => response.at # o.stmt
       /\ Completed(o.stmt) => LocalOf(o) = <<>>

\* C5, as the spec states it: bytes that are no zip container end in a
\* client error, never in an exception that leaves the handler.
C5_UnreadableIsClientError ==
  (/\ pc = "done"
   /\ \/ ~new_zip.is_zip
      \/ old_zip.file /\ ~old_zip.bytes.is_zip /\ response.at = "old_zip")
    => /\ response.status_code = 400
       /\ response.exc = ""

HasPath(z, sub) ==
  \E i \in 1..Len(z.infolist) : StrIn(sub, z.infolist[i].filename)

MissingRequired(z) ==
  ~HasPath(z, "followers_1.json") \/ ~HasPath(z, "following.json")

ExtractStmt(role) == IF role = "new" THEN "new_usernames" ELSE "old_usernames"

OpenedBefore(role, name, j) ==
  \E i \in 1..(j - 1) :
     events[i].kind = "open" /\ events[i].role = role /\ events[i].what = name

\* the new archive has been validated and its two required documents opened
NewReadBefore(j) ==
  /\ GuardPassedBefore("new", j)
  /\ OpenedBefore("new", FirstWith(namelist(new_zip), "followers_1.json"), j)
  /\ OpenedBefore("new", FirstWith(namelist(new_zip), "following.json"), j)

OldStatements == {"old_zip", "old_count", "old_danger", "old_usernames"}

\* C1 as amended: the handler validates the new archive, extracts from it,
\* and only then validates the old archive and extracts from it.  Nothing is
\* checked or opened in the old archive before the new archive has passed
\* its guard and had its required documents opened, no entry of the old
\* archive is opened before the old archive has passed its guard, nothing of
\* the new archive is touched after the old archive, and the response is the
\* first error in that order: a new archive that passes its guard and lacks
\* a required document yields the missing-document error whatever the old
\* archive is.
C1_NewBeforeOld ==
  /\ \A j \in 1..Len(events) :
        /\ events[j].role = "old" => NewReadBefore(j)
        /\ (events[j].role = "old" /\ events[j].kind = "open") =>
             GuardPassedBefore("old", j)
        /\ events[j].role = "new" =>
             \A i \in 1..(j - 1) : events[i].role = "new"
  /\ (pc = "done" /\ response.at \in OldStatements) =>
        NewReadBefore(Len(events) + 1)
  /\ (/\ pc = "done" /\ new_zip.is_zip
      /\ ReferenceVerdict(new_zip) = "pass" /\ MissingRequired(new_zip))
       => /\ response.at = "new_usernames"
          /\ response.detail = DetailMissing

\* the new archive lacks a required document, the old one fails its guard,
\* and the response is the missing-document error
C1_Witness ==
  /\ pc = "done" /\ old_zip.file /\ old_zip.bytes.is_zip
  /\ ReferenceVerdict(old_zip.bytes) # "pass"
  /\ new_zip.is_zip /\ ReferenceVerdict(new_zip) = "pass"
  /\ MissingRequired(new_zip)
  /\ response.detail = DetailMissing

\* C1 as the spec states it: with an old archive, no document of the new
\* archive is opened before the old archive has passed its three checks,
\* and an old archive failing its guard yields its guard error whenever the
\* new archive passes its own guard.
C1_ValidateBothFirst ==
  /\ old_zip.file =>
       \A j \in 1..Len(events) :
          (events[j].kind = "open" /\ events[j].role = "new") =>
            GuardPassedBefore("old", j)
  /\ (/\ pc = "done" /\ old_zip.file
      /\ new_zip.is_zip /\ old_zip.bytes.is_zip
      /\ ReferenceVerdict(new_zip) = "pass"
      /\ ReferenceVerdict(old_zip.bytes) # "pass")
       => response.detail = DetailOf("old", ReferenceVerdict(old_zip.bytes))

\* the old archive with its following entries replaced by an empty, valid one
WithEmptyFollowing(z) ==
  Zip(SelectSeq(z.infolist, LAMBDA e : ~StrIn("following.json", e.filename))
        \o <<FollowingEntry(Json([relationships_following |-> <<>>]))>>)

\* C2, as the spec states it: of the old archive only the followers
\* document is opened, and whether its extraction fails does not depend on
\* the archive's following.json entry.
C2_OldFollowersOnly ==
  old_zip.file =>
    /\ \A j \in 1..Len(events) :
          (events[j].kind = "open" /\ events[j].role = "old") =>
            events[j].what =
              FirstWith(namelist(old_zip.bytes), "followers_1.json")
    /\ (old_zip.bytes.is_zip /\ HasRun("old_usernames")) =>
          ((pc = "done" /\ response.at = "old_usernames")
             <=> extract_usernames_from_zip(
                   WithEmptyFollowing(old_zip.bytes)).exc # "")

=============================================================================
